---- MODULE Spec2Model ----
(***************************************************************************)
(* The permission store of src/store/modules/permission.ts: its five       *)
(* state fields, its setters, resetState, changePermissionCode and         *)
(* buildRoutesAction with the helpers the action closes over               *)
(* (routeFilter, routeRemoveIgnoreFilter, patchHomeAffix,                  *)
(* wrapperRouterComponent, parseRouteRoles, handleBackMenuTree).           *)
(*                                                                         *)
(* Strings that are taken apart by the code (paths) are sequences of       *)
(* tokens: "/dash/child" is <<"/", "dash", "/", "child">>, so that         *)
(* startsWith('/') and + are what they are in the source.  An optional     *)
(* property is a sequence of length 0 (undefined) or 1.  A record's meta   *)
(* is undefined, a string (the serialized form the backend sends) or an    *)
(* object (the decoded form).                                              *)
(***************************************************************************)
EXTENDS Integers, Sequences, FiniteSets, TLC

VARIABLES
  permCodeList,         \* state.permCodeList
  isDynamicAddedRoute,  \* state.isDynamicAddedRoute
  lastBuildMenuTime,    \* state.lastBuildMenuTime
  backMenuList,         \* state.backMenuList
  frontMenuList,        \* state.frontMenuList
  now,                  \* what new Date().getTime() returns
  input,                \* what the collaborators hold: backend tables, role list, home path
  call                  \* the last operation: its name, arguments and outcome

vars == <<permCodeList, isDynamicAddedRoute, lastBuildMenuTime, backMenuList,
          frontMenuList, now, input, call>>

store == <<permCodeList, isDynamicAddedRoute, lastBuildMenuTime, backMenuList,
           frontMenuList>>

(***************************************************************************)
(* Bounds of the model.                                                    *)
(***************************************************************************)
MaxRecords == 3     \* records in a list handed to handleBackMenuTree alone
MaxMenus == 3       \* records in the backend's menu table of a resolution pass
MaxNodes == 3       \* nodes of a forest handed to patchHomeAffix alone
MaxTime == 2        \* the clock runs from 1 to MaxTime

(***************************************************************************)
(* Values.                                                                 *)
(***************************************************************************)
None == <<>>
Some(x) == <<x>>

Range(s) == {s[i] : i \in 1..Len(s)}

RECURSIVE Concat(_)
Concat(ss) == IF ss = <<>> THEN <<>> ELSE Head(ss) \o Concat(Tail(ss))

\* meta: undefined, a serialized string, or an object
NoMeta == [kind |-> "undefined"]
\* an object: roles is optional, and is an array of roles or (as the backend
\* stores it) the JSON text of one; the other keys count as absent when
\* FALSE / 0
MetaObj(roles, ignoreRoute, orderNo) ==
  [kind |-> "object", roles |-> roles, ignoreRoute |-> ignoreRoute,
   orderNo |-> orderNo, affix |-> FALSE]
RolesArray(rs) == [form |-> "array", list |-> rs]
RolesJson(rs) == [form |-> "json", list |-> rs]
\* the JSON text of an object, and a text that is no JSON
MetaText(obj) == [kind |-> "string", json |-> TRUE, value |-> obj]
BadText == [kind |-> "string", json |-> FALSE]

\* reading a key of meta || {}: a string or undefined has none of the keys
MetaRoles(meta) == IF meta.kind = "object" THEN meta.roles ELSE None
MetaIgnoreRoute(meta) == meta.kind = "object" /\ meta.ignoreRoute
MetaOrderNo(meta) == IF meta.kind = "object" THEN meta.orderNo ELSE 0
MetaAffix(meta) == meta.kind = "object" /\ meta.affix

\* a path segment named after a record; record 1 is the dashboard
Seg(id) == IF id = 1 THEN "dashboard" ELSE ToString(id)

\* a flat record of the backend; in a menu table a root has an absolute
\* path, a child a relative one
RouteRecord(id, pid, path, redirect, meta) ==
  [id |-> id, pid |-> pid, name |-> Seg(id), path |-> path,
   redirect |-> redirect, meta |-> meta, children |-> <<>>, component |-> None]
MenuRecord(id, pid, meta) ==
  RouteRecord(id, pid, IF pid = 0 THEN <<"/", Seg(id)>> ELSE <<Seg(id)>>,
              None, meta)

(***************************************************************************)
(* handleBackMenuTree (lines 203-234).                                     *)
(***************************************************************************)
\* lines 207-213: JSON.parse of a truthy meta; a SyntaxError is caught and
\* logged, and the assignment has not happened
decodeMeta(meta) ==
  IF meta.kind = "string" /\ meta.json THEN meta.value ELSE meta

\* line 220: menuList.find((m) => m.id === menu.pid), as an index (0: undefined)
findParent(menuList, pid) ==
  LET hits == {j \in 1..Len(menuList) : menuList[j].id = pid}
  IN IF hits = {} THEN 0 ELSE CHOOSE j \in hits : \A k \in hits : j <= k

\* childrenOf with unshift for push (line 228)
childrenOfUnshift(menuList, j) ==
  LET RECURSIVE pushed(_)
      pushed(i) ==
        IF i > Len(menuList) THEN <<>>
        ELSE pushed(i + 1) \o
             (IF menuList[i].pid # 0 /\ findParent(menuList, menuList[i].pid) = j
              THEN <<i>> ELSE <<>>)
  IN pushed(1)

\* the children array of record j once the forEach is over: the records
\* pushed to it, in the order of the list
childrenOf(menuList, j) ==
  LET RECURSIVE pushed(_)
      pushed(i) ==
        IF i > Len(menuList) THEN <<>>
        ELSE (IF menuList[i].pid # 0 /\ findParent(menuList, menuList[i].pid) = j
              THEN <<i>> ELSE <<>>) \o pushed(i + 1)
  IN pushed(1)

\* the object of record i as the returned array shows it
RECURSIVE menuObject(_, _)
menuObject(menuList, i) ==
  LET kids == childrenOf(menuList, i)
  IN [menuList[i] EXCEPT
        !.meta = decodeMeta(@),
        !.children = [k \in 1..Len(kids) |-> menuObject(menuList, kids[k])]]

handleBackMenuTree(menuList) ==
  LET orphans == {i \in 1..Len(menuList) :
                    menuList[i].pid # 0 /\ findParent(menuList, menuList[i].pid) = 0}
      roots == SelectSeq([i \in 1..Len(menuList) |-> i],
                         LAMBDA i : menuList[i].pid = 0)
  IN IF orphans # {}
     THEN \* line 223: parentMenu is undefined, a TypeError
          [threw |-> TRUE, menus |-> <<>>]
     ELSE [threw |-> FALSE,
           menus |-> [k \in 1..Len(roots) |-> menuObject(menuList, roots[k])]]

(***************************************************************************)
(* The closures of buildRoutesAction (lines 122-200).                      *)
(***************************************************************************)
\* routeFilter without the check of line 128
routeFilterAllowsAll(route, roleList) == TRUE

\* lines 122-129; roleList is the role list the closure captured
routeFilter(route, roleList) ==
  LET roles == MetaRoles(route.meta)
  IN IF roles = None THEN TRUE
     ELSE \E role \in roleList : role \in roles[1].list

\* lines 131-137
routeRemoveIgnoreFilter(route) == ~MetaIgnoreRoute(route.meta)

\* a predicate handed to filter or Array.filter: the closure as a value
RoleFilter(roleList) == [fn |-> "routeFilter", roleList |-> roleList]
IgnoreFilter == [fn |-> "routeRemoveIgnoreFilter"]
apply(func, route) ==
  IF func.fn = "routeFilter" THEN routeFilter(route, func.roleList)
  ELSE routeRemoveIgnoreFilter(route)

\* Array.prototype.filter over the top level (lines 257, 268, 274, 322)
arrayFilter(routes, func) == SelectSeq(routes, LAMBDA r : apply(func, r))

\* ROUTE_MAP[route.name] (line 179): an opaque reference found by name
ROUTE_MAP(name) == Some(name)

\* lines 174-182
RECURSIVE wrapperRouterComponent(_)
wrapperRouterComponent(routes) ==
  [i \in 1..Len(routes) |->
     [routes[i] EXCEPT !.children = wrapperRouterComponent(@),
                       !.component = ROUTE_MAP(routes[i].name)]]

\* lines 190-196: JSON.parse of a truthy meta.roles.  The JSON text of an
\* array becomes the array; an array is first made a string ("admin" for
\* ["admin"]), which is no JSON: the error is caught and roles is left alone
parseRoles(meta) ==
  IF MetaRoles(meta) # None /\ meta.roles[1].form = "json"
  THEN [meta EXCEPT !.roles = Some(RolesArray(meta.roles[1].list))]
  ELSE meta

\* lines 184-200
RECURSIVE parseRouteRoles(_)
parseRouteRoles(routes) ==
  [i \in 1..Len(routes) |->
     [routes[i] EXCEPT !.children = parseRouteRoles(@),
                       !.meta = parseRoles(@)]]

(***************************************************************************)
(* The helpers buildRoutesAction imports (lines 9, 10, 16, 18, 24).        *)
(***************************************************************************)
startsWithSlash(path) == Len(path) > 0 /\ path[1] = "/"

\* a node's resolved absolute path under its parent's
resolvePath(parentPath, path) ==
  IF startsWithSlash(path) THEN path
  ELSE (IF parentPath # <<>> THEN parentPath \o <<"/">> ELSE parentPath) \o path

\* treeHelper.filter: the children of every node are replaced by those of
\* them that pass func, filtered in turn; the roots themselves all stay
RECURSIVE listFilter(_, _)
listFilter(list, func) ==
  IF list = <<>> THEN <<>>
  ELSE LET node == [Head(list) EXCEPT !.children = listFilter(@, func)]
       IN (IF apply(func, node) THEN <<node>> ELSE <<>>)
            \o listFilter(Tail(list), func)

filter(tree, func) ==
  [i \in 1..Len(tree) |-> [tree[i] EXCEPT !.children = listFilter(@, func)]]

\* every descendant of a node in pre-order, its path resolved, its own
\* children taken away
RECURSIVE hoisted(_, _)
hoisted(routes, parentPath) ==
  Concat([i \in 1..Len(routes) |->
            LET path == resolvePath(parentPath, routes[i].path)
            IN <<[routes[i] EXCEPT !.path = path, !.children = <<>>]>>
                 \o hoisted(routes[i].children, path)])

\* routeHelper.flatMultiLevelRoutes: a root deeper than two levels gets all
\* its descendants as direct children; the others are left alone
flatMultiLevelRoutes(routes) ==
  [i \in 1..Len(routes) |->
     IF \E k \in 1..Len(routes[i].children) : routes[i].children[k].children # <<>>
     THEN [routes[i] EXCEPT !.children = hoisted(@, routes[i].path)]
     ELSE routes[i]]

\* menuHelper.transformRouteToMenu: one menu node per route node, in the
\* order of the routes; with fillPath a relative path is joined to the
\* parent's
RECURSIVE routeToMenu(_, _, _)
routeToMenu(routes, fillPath, parentPath) ==
  [i \in 1..Len(routes) |->
     LET path == IF fillPath THEN resolvePath(parentPath, routes[i].path)
                 ELSE routes[i].path
     IN [name |-> routes[i].name, path |-> path, meta |-> routes[i].meta,
         children |-> routeToMenu(routes[i].children, fillPath, path)]]

transformRouteToMenu(routes, fillPath) == routeToMenu(routes, fillPath, <<>>)

\* routeHelper.transformObjToRoute: every record gets its component
RECURSIVE transformObjToRoute(_)
transformObjToRoute(routeList) ==
  [i \in 1..Len(routeList) |->
     [routeList[i] EXCEPT !.children = transformObjToRoute(@),
                          !.component = ROUTE_MAP(routeList[i].name)]]

\* the reserved routes of router/routes/basic and the default home
PAGE_NOT_FOUND_ROUTE ==
  [id |-> 0, pid |-> 0, name |-> "PageNotFound", path |-> <<"/", ":path(.*)*">>,
   redirect |-> None, meta |-> MetaObj(None, FALSE, 0), children |-> <<>>,
   component |-> Some("LAYOUT")]
ERROR_LOG_ROUTE ==
  [id |-> 0, pid |-> 0, name |-> "ErrorLog", path |-> <<"/", "error-log">>,
   redirect |-> None, meta |-> MetaObj(None, FALSE, 0), children |-> <<>>,
   component |-> Some("LAYOUT")]
BASE_HOME == <<"/", "dashboard">>

\* Array.prototype.sort with the comparator of lines 276-278: stable,
\* ascending by meta?.orderNo || 0
RECURSIVE sortByOrderNo(_)
sortByOrderNo(menuList) ==
  IF menuList = <<>> THEN <<>>
  ELSE LET sorted == sortByOrderNo(SubSeq(menuList, 1, Len(menuList) - 1))
           last == menuList[Len(menuList)]
           keep == {k \in 1..Len(sorted) :
                      MetaOrderNo(sorted[k].meta) <= MetaOrderNo(last.meta)}
           n == Cardinality(keep)
       IN SubSeq(sorted, 1, n) \o <<last>> \o SubSeq(sorted, n + 1, Len(sorted))

(***************************************************************************)
(* patchHomeAffix (lines 142-169).                                         *)
(***************************************************************************)
\* the nodes in the order patcher's forEach and its recursion (line 159)
\* reach them, each with its place in the forest and its currentPath
\* (lines 147-150)
RECURSIVE patcherVisits(_, _, _)
patcherVisits(routes, parentPath, at) ==
  Concat([i \in 1..Len(routes) |->
            LET currentPath == resolvePath(parentPath, routes[i].path)
            IN <<[at |-> Append(at, i), currentPath |-> currentPath,
                  redirect |-> routes[i].redirect, meta |-> routes[i].meta]>>
                 \o patcherVisits(routes[i].children, currentPath, Append(at, i))])

\* patcher without the throw of line 156: the walk goes on and a later
\* match takes the affix
RECURSIVE patcherLastMatch(_, _, _)
patcherLastMatch(visits, homePath, k) ==
  IF k > Len(visits) THEN None
  ELSE IF visits[k].currentPath = homePath
       THEN IF visits[k].redirect # None
            THEN patcherLastMatch(visits, visits[k].redirect[1], k + 1)
            ELSE LET later == patcherLastMatch(visits, homePath, k + 1)
                 IN IF later # None THEN later ELSE Some(visits[k].at)
       ELSE patcherLastMatch(visits, homePath, k + 1)

\* patcher without the redirect branch of lines 152-153
RECURSIVE patcherMarksRedirecting(_, _, _)
patcherMarksRedirecting(visits, homePath, k) ==
  IF k > Len(visits) THEN None
  ELSE IF visits[k].currentPath = homePath THEN Some(visits[k].at)
       ELSE patcherMarksRedirecting(visits, homePath, k + 1)

\* lines 151-158 over the visits from the k-th on: the place of the node
\* that gets the affix and ends the walk (line 156), or None
RECURSIVE patcher(_, _, _)
patcher(visits, homePath, k) ==
  IF k > Len(visits) THEN None
  ELSE IF visits[k].currentPath = homePath
       THEN IF visits[k].redirect # None
            THEN patcher(visits, visits[k].redirect[1], k + 1)
            ELSE Some(visits[k].at)
       ELSE patcher(visits, homePath, k + 1)

\* line 155: Object.assign({}, route.meta, { affix: true })
assignAffix(meta) ==
  IF meta.kind = "object" THEN [meta EXCEPT !.affix = TRUE]
  ELSE [MetaObj(None, FALSE, 0) EXCEPT !.affix = TRUE]

RECURSIVE markAt(_, _)
markAt(routes, at) ==
  [routes EXCEPT ![Head(at)] =
     IF Len(at) = 1 THEN [@ EXCEPT !.meta = assignAffix(@)]
     ELSE [@ EXCEPT !.children = markAt(@, Tail(at))]]

\* userHomePath is userStore.getUserInfo.homePath, an optional path
patchHomeAffix(routes, userHomePath) ==
  IF routes = <<>> THEN routes
  ELSE LET homePath == IF userHomePath # None THEN userHomePath[1] ELSE BASE_HOME
           hit == patcher(patcherVisits(routes, <<>>, <<>>), homePath, 1)
       IN IF hit = None THEN routes ELSE markAt(routes, hit[1])

(***************************************************************************)
(* buildRoutesAction (lines 112-332) as a function of the mode, of what    *)
(* the three fetches answer (None: the fetch failed) and of the user       *)
(* store; what the call does to the store is in the result.                *)
(***************************************************************************)
\* lines 243-249: undefined (None) when the fetch or the tree building threw
backRouteListOf(active) ==
  IF active = None THEN None
  ELSE LET tree == handleBackMenuTree(active[1])
       IN IF tree.threw THEN None
          ELSE Some(parseRouteRoles(wrapperRouterComponent(tree.menus)))

Threw == [threw |-> TRUE, routes |-> <<>>, front |-> None, back |-> None,
          codes |-> None]

\* lines 253-261
roleMode(backRouteList, roleList) ==
  IF backRouteList = None
  THEN \* line 255 hands undefined to filter, which walks its argument as an
       \* array: a TypeError, and no try is around it
       Threw
  ELSE LET routes == arrayFilter(filter(backRouteList[1], RoleFilter(roleList)),
                                 RoleFilter(roleList))
       IN [threw |-> FALSE, routes |-> flatMultiLevelRoutes(routes),
           front |-> None, back |-> None, codes |-> None]

\* lines 264-286
routeMappingMode(backRouteList, roleList) ==
  IF backRouteList = None
  THEN Threw   \* line 266, as line 255
  ELSE LET routes == arrayFilter(filter(backRouteList[1], RoleFilter(roleList)),
                                 RoleFilter(roleList))
           menuList == transformRouteToMenu(routes, TRUE)
           kept == arrayFilter(filter(routes, IgnoreFilter), IgnoreFilter)
       IN [threw |-> FALSE, routes |-> flatMultiLevelRoutes(kept),
           front |-> Some(sortByOrderNo(menuList)), back |-> None, codes |-> None]

\* lines 290-326
backMode(permCode, menu) ==
  LET fetched == IF permCode = None \/ menu = None THEN <<>> ELSE menu[1]
      routeList == transformObjToRoute(fetched)
      menuList == transformRouteToMenu(routeList, FALSE)
      kept == arrayFilter(filter(routeList, IgnoreFilter), IgnoreFilter)
  IN [threw |-> FALSE,
      routes |-> <<PAGE_NOT_FOUND_ROUTE>> \o flatMultiLevelRoutes(kept),
      front |-> None, back |-> Some(menuList), codes |-> permCode]

buildRoutes(mode, fetch, user) ==
  LET backRouteList == backRouteListOf(fetch.active)
      branch == CASE mode = "ROLE" -> roleMode(backRouteList, user.roleList)
                  [] mode = "ROUTE_MAPPING" ->
                       routeMappingMode(backRouteList, user.roleList)
                  [] mode = "BACK" -> backMode(fetch.permCode, fetch.menu)
  IN IF branch.threw THEN branch
     ELSE [branch EXCEPT
             \* lines 329-331
             !.routes = patchHomeAffix(Append(@, ERROR_LOG_ROUTE), user.homePath)]

(***************************************************************************)
(* The collaborators: what the backend and the user store may hold.        *)
(***************************************************************************)
\* a menu table: record i has id i and a parent among the records before it
MenuTable(pid, meta) == [i \in DOMAIN pid |-> MenuRecord(i, pid[i], meta[i])]
ParentsFirst(pid) == \A i \in DOMAIN pid : pid[i] < i

\* the forest getMenuList answers with: the table as a tree
ForestOf(table) == handleBackMenuTree(table).menus

Modes == {"ROLE", "ROUTE_MAPPING", "BACK"}
RoleLists == {{"admin"}, {"user"}}
CodeLists == {<<>>, <<"1000">>}

\* the metas of a resolution pass: none, roles as the JSON text of an
\* array, roles as an array with an orderNo, ignoreRoute, and no JSON
PassMetas ==
  {NoMeta,
   MetaText(MetaObj(Some(RolesJson({"admin"})), FALSE, 0)),
   MetaText(MetaObj(Some(RolesArray({"admin"})), FALSE, 1)),
   MetaText(MetaObj(None, TRUE, 0)),
   BadText}

\* the tables the backend holds in the store machine: an empty one, one
\* record, and one record that is kept out of the routes
StoreTables ==
  {<<>>, <<MenuRecord(1, 0, NoMeta)>>,
   <<MenuRecord(1, 0, MetaText(MetaObj(None, TRUE, 0)))>>}

\* what the three fetches may answer in the store machine.  getPermCode and
\* getMenuList are called in BACK mode only; there the answer of
\* getBackActiveMenuList is dropped, whatever it is
StoreFetches(mode) ==
  IF mode = "BACK"
  THEN [active : {None, Some(<<>>)},
        permCode : {None, Some(<<"1000">>)},
        menu : {None} \cup {Some(ForestOf(t)) : t \in StoreTables}]
  ELSE [active : {None} \cup {Some(t) : t \in StoreTables},
        permCode : {None}, menu : {None}]

\* the menu lists a caller of the setters may hand over
MenuSamples ==
  {<<>>, transformRouteToMenu(ForestOf(<<MenuRecord(1, 0, NoMeta)>>), FALSE)}

Outcome(fetch) ==
  [active |-> fetch.active # None, permCode |-> fetch.permCode # None,
   menu |-> fetch.menu # None]

NoCall == [op |-> "none", arg |-> <<>>, threw |-> FALSE, routes |-> <<>>]
Call(op, arg) == [op |-> op, arg |-> arg, threw |-> FALSE, routes |-> <<>>]

(***************************************************************************)
(* The store: state (lines 46-61) and actions (lines 80-332).              *)
(***************************************************************************)
InitState ==
  /\ permCodeList = <<>>
  /\ isDynamicAddedRoute = FALSE
  /\ lastBuildMenuTime = 0
  /\ backMenuList = <<>>
  /\ frontMenuList = <<>>
  /\ now = 1
  /\ call = NoCall

\* line 86 without the length check
stampAlways(list) == TRUE

\* line 86: list?.length > 0
stampNeeded(list) == Len(list) > 0

setPermCodeList(codeList) ==
  /\ permCodeList' = codeList
  /\ call' = Call("setPermCodeList", <<>>)
  /\ UNCHANGED <<isDynamicAddedRoute, lastBuildMenuTime, backMenuList,
                 frontMenuList, now, input>>

setBackMenuList(list) ==
  /\ backMenuList' = list
  /\ lastBuildMenuTime' = IF stampNeeded(list) THEN now ELSE lastBuildMenuTime
  /\ call' = Call("setBackMenuList", list)
  /\ UNCHANGED <<permCodeList, isDynamicAddedRoute, frontMenuList, now, input>>

setFrontMenuList(list) ==
  /\ frontMenuList' = list
  /\ call' = Call("setFrontMenuList", <<>>)
  /\ UNCHANGED <<permCodeList, isDynamicAddedRoute, lastBuildMenuTime,
                 backMenuList, now, input>>

setLastBuildMenuTime ==
  /\ lastBuildMenuTime' = now
  /\ call' = Call("setLastBuildMenuTime", <<>>)
  /\ UNCHANGED <<permCodeList, isDynamicAddedRoute, backMenuList,
                 frontMenuList, now, input>>

setDynamicAddedRoute(added) ==
  /\ isDynamicAddedRoute' = added
  /\ call' = Call("setDynamicAddedRoute", <<>>)
  /\ UNCHANGED <<permCodeList, lastBuildMenuTime, backMenuList, frontMenuList,
                 now, input>>

resetState ==
  /\ isDynamicAddedRoute' = FALSE
  /\ permCodeList' = <<>>
  /\ backMenuList' = <<>>
  /\ lastBuildMenuTime' = 0
  /\ call' = Call("resetState", <<>>)
  /\ UNCHANGED <<frontMenuList, now, input>>

\* lines 106-109; permCode is what getPermCode answers (None: it rejects,
\* and so does the call)
changePermissionCode(permCode) ==
  /\ permCodeList' = IF permCode = None THEN permCodeList ELSE permCode[1]
  /\ call' = [Call("changePermissionCode", <<>>) EXCEPT
                !.threw = (permCode = None)]
  /\ UNCHANGED <<isDynamicAddedRoute, lastBuildMenuTime, backMenuList,
                 frontMenuList, now, input>>

buildRoutesAction(mode, fetch) ==
  LET done == buildRoutes(mode, fetch, input.user)
  IN /\ permCodeList' = IF done.codes = None THEN permCodeList ELSE done.codes[1]
     /\ frontMenuList' = IF done.front = None THEN frontMenuList ELSE done.front[1]
     /\ backMenuList' = IF done.back = None THEN backMenuList ELSE done.back[1]
     /\ lastBuildMenuTime' = IF done.back # None /\ stampNeeded(done.back[1])
                             THEN now ELSE lastBuildMenuTime
     /\ call' = [op |-> "buildRoutesAction",
                 arg |-> [mode |-> mode, ok |-> Outcome(fetch)],
                 threw |-> done.threw, routes |-> done.routes]
     /\ UNCHANGED <<isDynamicAddedRoute, now, input>>

\* the clock moves on between two operations
Tick ==
  /\ now < MaxTime
  /\ now' = now + 1
  /\ UNCHANGED <<store, input, call>>

Init ==
  /\ InitState
  /\ input \in [user : [roleList : {{"admin"}}, homePath : {None}]]

Next ==
  \/ \E codeList \in CodeLists : setPermCodeList(codeList)
  \/ \E list \in MenuSamples : setBackMenuList(list)
  \/ \E list \in MenuSamples : setFrontMenuList(list)
  \/ setLastBuildMenuTime
  \/ \E added \in BOOLEAN : setDynamicAddedRoute(added)
  \/ resetState
  \/ \E permCode \in {None, Some(<<"1000">>)} : changePermissionCode(permCode)
  \/ \E mode \in Modes : \E fetch \in StoreFetches(mode) : buildRoutesAction(mode, fetch)
  \/ Tick

Spec == Init /\ [][Next]_vars

(***************************************************************************)
(* One resolution pass over a backend table, every fetch answering.        *)
(***************************************************************************)
PassFetch == [active |-> Some(input.table), permCode |-> Some(<<"1000">>),
              menu |-> Some(ForestOf(input.table))]

InitBuild ==
  /\ InitState
  /\ \E n \in 0..MaxMenus, roleList \in RoleLists :
       \E pid \in [1..n -> 0..n], meta \in [1..n -> PassMetas] :
         /\ ParentsFirst(pid)
         /\ input = [user |-> [roleList |-> roleList, homePath |-> None],
                     table |-> MenuTable(pid, meta)]

NextBuild ==
  /\ call = NoCall
  /\ \E mode \in Modes : buildRoutesAction(mode, PassFetch)

SpecBuild == InitBuild /\ [][NextBuild]_vars

(***************************************************************************)
(* handleBackMenuTree alone, over every list of records with ids 0.. or    *)
(* 1.., any pid (itself, a later record, a missing one) and a meta that    *)
(* decodes or does not.                                                    *)
(***************************************************************************)
GoodText == MetaText(MetaObj(None, FALSE, 1))

InitTree ==
  /\ InitState
  /\ \E n \in 0..MaxRecords, base \in {0, 1} :
       \E pid \in [1..n -> 0..n], meta \in [1..n -> {NoMeta, GoodText, BadText}] :
         input = [menuList |->
                    [i \in 1..n |-> MenuRecord(i - 1 + base, pid[i], meta[i])]]

NextTree ==
  /\ call = NoCall
  /\ LET tree == handleBackMenuTree(input.menuList)
     IN call' = [op |-> "handleBackMenuTree", arg |-> <<>>,
                 threw |-> tree.threw, routes |-> tree.menus]
  /\ UNCHANGED <<store, now, input>>

SpecTree == InitTree /\ [][NextTree]_vars

(***************************************************************************)
(* patchHomeAffix alone, over every forest whose nodes sit at the home     *)
(* path, under it or at a relative path, with or without a redirect.       *)
(***************************************************************************)
HomeChild == <<"/", "dashboard", "/", "child">>
PatchPaths == {BASE_HOME, <<"child">>, HomeChild}
PatchRedirects == {None, Some(HomeChild)}

InitPatch ==
  /\ InitState
  /\ \E n \in 0..MaxNodes, homePath \in {None, Some(HomeChild)} :
       \E pid \in [1..n -> 0..n], path \in [1..n -> PatchPaths],
          redirect \in [1..n -> PatchRedirects] :
         /\ ParentsFirst(pid)
         /\ input = [routes |-> ForestOf([i \in 1..n |->
                                  RouteRecord(i, pid[i], path[i], redirect[i],
                                              NoMeta)]),
                     user |-> [roleList |-> {}, homePath |-> homePath]]

NextPatch ==
  /\ call = NoCall
  /\ call' = [op |-> "patchHomeAffix", arg |-> <<>>, threw |-> FALSE,
              routes |-> patchHomeAffix(input.routes, input.user.homePath)]
  /\ UNCHANGED <<store, now, input>>

SpecPatch == InitPatch /\ [][NextPatch]_vars

(***************************************************************************)
(* What the claims speak of.                                               *)
(***************************************************************************)
\* the nodes of a forest at every depth, in pre-order
RECURSIVE AllNodes(_)
AllNodes(routes) ==
  Concat([i \in 1..Len(routes) |-> <<routes[i]>> \o AllNodes(routes[i].children)])

NodeNames(routes) == {n.name : n \in Range(AllNodes(routes))}

Built == call.op = "buildRoutesAction"
Returned == Built /\ ~call.threw
Reserved == {PAGE_NOT_FOUND_ROUTE.name, ERROR_LOG_ROUTE.name}

(***************************************************************************)
(* The store machine (Spec).                                               *)
(***************************************************************************)
\* the fetches the mode of a pass makes use of all answered
FetchesAnswered ==
  IF call.arg.mode = "BACK" THEN call.arg.ok.permCode /\ call.arg.ok.menu
  ELSE call.arg.ok.active

\* C1: buildRoutesAction never throws: in every mode and whatever the
\* fetches answer it returns a forest, and when a fetch it uses failed the
\* forest holds the reserved routes only.
C1_NeverThrows ==
  Built => /\ ~call.threw
           /\ ~FetchesAnswered => NodeNames(call.routes) \subseteq Reserved

\* C3: after resetState the five fields have their initial values.
C3_ResetClearsAll ==
  call.op = "resetState" =>
    /\ permCodeList = <<>>
    /\ isDynamicAddedRoute = FALSE
    /\ lastBuildMenuTime = 0
    /\ backMenuList = <<>>
    /\ frontMenuList = <<>>

\* the step is a call of op (every operation leaves the clock alone and
\* writes call; only Tick moves the clock)
Step(op) == now' = now /\ call'.op = op
BackPassStep == Step("buildRoutesAction") /\ call'.arg.mode = "BACK"

\* C8: setBackMenuList(list) stores list and sets lastBuildMenuTime to the
\* time of the call if and only if list is non-empty; a BACK pass whose menu
\* list is empty leaves lastBuildMenuTime alone; and lastBuildMenuTime
\* changes only in setLastBuildMenuTime, in resetState and where a non-empty
\* list goes through setBackMenuList (directly, or in a BACK pass).
C8_StampOnlyWhenNonEmpty ==
  [][/\ Step("setBackMenuList") =>
          /\ backMenuList' = call'.arg
          /\ lastBuildMenuTime' =
               IF call'.arg # <<>> THEN now ELSE lastBuildMenuTime
     /\ BackPassStep =>
          lastBuildMenuTime' = IF backMenuList' # <<>> THEN now
                               ELSE lastBuildMenuTime
     /\ lastBuildMenuTime' # lastBuildMenuTime =>
          \/ Step("setLastBuildMenuTime")
          \/ Step("resetState")
          \/ (Step("setBackMenuList") \/ BackPassStep) /\ backMenuList' # <<>>
    ]_vars

\* a BACK pass whose fetch failed has stored an empty menu list, and the
\* stamp is still the earlier one
C8_Witness ==
  /\ Built /\ call.arg.mode = "BACK" /\ ~call.arg.ok.menu
  /\ backMenuList = <<>>
  /\ lastBuildMenuTime > 0 /\ lastBuildMenuTime < now

(***************************************************************************)
(* One resolution pass (SpecBuild).                                        *)
(***************************************************************************)
\* what a record of the table declares, read off its serialized meta
Declared(rec) ==
  IF rec.meta.kind = "string" /\ rec.meta.json THEN rec.meta.value
  ELSE MetaObj(None, FALSE, 0)
RolesDisjoint(rec, roleList) ==
  /\ Declared(rec).roles # None
  /\ Declared(rec).roles[1].list \cap roleList = {}

\* the records above record i in the table (parents come first)
RECURSIVE Ancestors(_, _)
Ancestors(table, i) ==
  IF table[i].pid = 0 THEN {}
  ELSE {table[i].pid} \cup Ancestors(table, table[i].pid)

\* C2: in every mode no node of the returned forest, at any depth, has
\* meta.ignoreRoute = true.
C2_NoIgnoredRoute ==
  Returned => \A n \in Range(AllNodes(call.routes)) : ~MetaIgnoreRoute(n.meta)

\* C4: in ROLE and ROUTE_MAPPING mode every node of the returned forest but
\* the reserved one has no roles or a role of the role list; every record
\* whose roles are disjoint from the role list is absent; with a record all
\* the records below it are absent; and a root without roles is there (in
\* ROUTE_MAPPING mode: unless ignoreRoute takes it out).
C4_RoleFilterSound ==
  Returned /\ call.arg.mode \in {"ROLE", "ROUTE_MAPPING"} =>
    LET table == input.table
        roleList == input.user.roleList
        names == NodeNames(call.routes)
    IN /\ \A n \in Range(AllNodes(call.routes)) :
            n.name \notin Reserved =>
              \/ MetaRoles(n.meta) = None
              \/ n.meta.roles[1].list \cap roleList # {}
       /\ \A i \in 1..Len(table) :
            /\ RolesDisjoint(table[i], roleList) => table[i].name \notin names
            /\ table[i].name \notin names =>
                 \A j \in 1..Len(table) :
                   i \in Ancestors(table, j) => table[j].name \notin names
            /\ /\ table[i].pid = 0
               /\ Declared(table[i]).roles = None
               /\ call.arg.mode = "ROLE" \/ ~Declared(table[i]).ignoreRoute
               => \E k \in 1..Len(call.routes) :
                    call.routes[k].name = table[i].name

\* under a root without roles a record with foreign roles is gone and so is
\* the record without roles below it
C4_Witness ==
  /\ Returned /\ call.arg.mode = "ROLE" /\ Len(input.table) = 3
  /\ input.table[2].pid = 1 /\ input.table[3].pid = 2
  /\ Declared(input.table[1]).roles = None
  /\ RolesDisjoint(input.table[2], input.user.roleList)
  /\ Declared(input.table[3]).roles = None
  /\ NodeNames(call.routes) = {input.table[1].name, ERROR_LOG_ROUTE.name}

\* the place of a menu node's record in the table
TableIndex(menu) == CHOOSE i \in 1..Len(input.table) : input.table[i].name = menu.name

RECURSIVE SortedAtEveryLevel(_)
SortedAtEveryLevel(menus) ==
  /\ \A k \in 1..(Len(menus) - 1) :
       \/ MetaOrderNo(menus[k].meta) < MetaOrderNo(menus[k + 1].meta)
       \/ /\ MetaOrderNo(menus[k].meta) = MetaOrderNo(menus[k + 1].meta)
          /\ TableIndex(menus[k]) < TableIndex(menus[k + 1])
  /\ \A k \in 1..Len(menus) : SortedAtEveryLevel(menus[k].children)

\* C6: after a ROUTE_MAPPING pass the siblings of frontMenuList are, at the
\* top and at every nested level, in ascending order of orderNo (none: 0),
\* equal keys in the order of the input.
C6_MenuSorted ==
  Returned /\ call.arg.mode = "ROUTE_MAPPING" => SortedAtEveryLevel(frontMenuList)

(***************************************************************************)
(* handleBackMenuTree alone (SpecTree).                                    *)
(***************************************************************************)
TreeCalled == call.op = "handleBackMenuTree"

UniqueIds(list) ==
  \A i, j \in 1..Len(list) : list[i].id = list[j].id => i = j
ParentsExist(list) ==
  \A i \in 1..Len(list) :
    list[i].pid # 0 => \E j \in 1..Len(list) : list[j].id = list[i].pid
NonZeroIds(list) == \A i \in 1..Len(list) : list[i].id # 0

\* following the pid links from record i ends at a root within steps links
RECURSIVE ReachesRoot(_, _, _)
ReachesRoot(list, i, steps) ==
  \/ list[i].pid = 0
  \/ /\ steps > 0
     /\ \E j \in 1..Len(list) :
          list[j].id = list[i].pid /\ ReachesRoot(list, j, steps - 1)

Ids(records) == [k \in 1..Len(records) |-> records[k].id]

\* the forest holds every record of the list once, under roots with pid 0,
\* and the children of a node are the records with its id as pid, in the
\* order of the list
Complete(list, forest) ==
  LET out == AllNodes(forest)
  IN /\ Len(out) = Len(list)
     /\ \A i \in 1..Len(list) :
          Cardinality({k \in 1..Len(out) : out[k].id = list[i].id}) = 1
     /\ \A k \in 1..Len(forest) : forest[k].pid = 0
     /\ \A k \in 1..Len(out) :
          Ids(out[k].children) =
            Ids(SelectSeq(list, LAMBDA r : r.pid = out[k].id))

\* C5 as claimed: for every list with unique ids in which every non-zero pid
\* is the id of a record, the forest is complete.
C5_Original ==
  TreeCalled /\ UniqueIds(input.menuList) /\ ParentsExist(input.menuList) =>
    ~call.threw /\ Complete(input.menuList, call.routes)

\* C5 as amended: for every list with unique non-zero ids in which the pid
\* links of every record lead to a root, the forest is complete.
C5_Amended ==
  /\ TreeCalled
  /\ UniqueIds(input.menuList) /\ NonZeroIds(input.menuList)
  /\ \A i \in 1..Len(input.menuList) :
       ReachesRoot(input.menuList, i, Len(input.menuList))
  => ~call.threw /\ Complete(input.menuList, call.routes)

\* three levels, every child ahead of its parent in the list
C5_Witness ==
  /\ TreeCalled /\ ~call.threw /\ Len(input.menuList) = 3
  /\ NonZeroIds(input.menuList)
  /\ input.menuList[1].pid = input.menuList[2].id
  /\ input.menuList[2].pid = input.menuList[3].id
  /\ input.menuList[3].pid = 0
  /\ Len(call.routes) = 1 /\ Len(AllNodes(call.routes)) = 3

\* the list with every meta that does not decode taken away
WithoutBadMeta(list) ==
  [i \in 1..Len(list) |->
     IF list[i].meta = BadText THEN [list[i] EXCEPT !.meta = NoMeta] ELSE list[i]]

\* C10: a meta that does not decode raises nothing, leaves the record with
\* no meta (not with the text), and the forest is the one the list would
\* give had the record come without meta.
C10_DecodeFailureRecovered ==
  TreeCalled =>
    /\ call.threw => ~ParentsExist(input.menuList)
    /\ \A n \in Range(AllNodes(call.routes)) : n.meta.kind # "string"
    /\ call.routes = handleBackMenuTree(WithoutBadMeta(input.menuList)).menus

(***************************************************************************)
(* patchHomeAffix alone (SpecPatch).                                       *)
(***************************************************************************)
Patched == call.op = "patchHomeAffix"
Home == IF input.user.homePath # None THEN input.user.homePath[1] ELSE BASE_HOME
Min(S) == CHOOSE k \in S : \A m \in S : k <= m

\* the walk over the forest before and after the call, and the nodes (by
\* their rank in pre-order) at the home path, those whose meta the call
\* changed, those that have the affix after it
Walk ==
  LET before == patcherVisits(input.routes, <<>>, <<>>)
      after == patcherVisits(call.routes, <<>>, <<>>)
  IN [before |-> before,
      matches |-> {k \in 1..Len(before) : before[k].currentPath = Home},
      changed |-> {k \in 1..Len(before) : after[k].meta # before[k].meta},
      affixed |-> {k \in 1..Len(after) : MetaAffix(after[k].meta)}]

\* C7: when one node only is at the home path and has no redirect, that node
\* gets affix = true and no other meta changes; a call marks at most one
\* node, the first match in pre-order when that has no redirect, and none
\* when no node is at the home path.
C7_SingleMatch ==
  Patched =>
    LET w == Walk
    IN /\ Cardinality(w.matches) = 1 /\ w.before[Min(w.matches)].redirect = None =>
            w.changed = w.matches /\ w.affixed = w.matches
       /\ Cardinality(w.changed) <= 1 /\ w.changed = w.affixed
       /\ w.matches = {} => w.changed = {}
       /\ w.matches # {} /\ w.before[Min(w.matches)].redirect = None =>
            w.affixed = {Min(w.matches)}

\* the one match is a child among three nodes
C7_Witness ==
  /\ Patched
  /\ LET w == Walk
     IN /\ Len(w.before) = 3
        /\ Cardinality(w.matches) = 1
        /\ w.before[Min(w.matches)].redirect = None
        /\ Len(w.before[Min(w.matches)].at) = 2
        /\ w.affixed = w.matches

\* the first node at the home path redirects
Redirected(w) == w.matches # {} /\ w.before[Min(w.matches)].redirect # None
\* the nodes at the destination of its redirect
AtDestination(w) ==
  {k \in 1..Len(w.before) :
     w.before[k].currentPath = w.before[Min(w.matches)].redirect[1]}

\* C9 as claimed: the redirecting node is not marked, and the node at the
\* redirect destination (without a redirect of its own) is, wherever it is.
C9_Original ==
  Patched =>
    LET w == Walk
    IN Redirected(w) =>
         /\ Min(w.matches) \notin w.affixed
         /\ \A k \in AtDestination(w) :
              AtDestination(w) = {k} /\ w.before[k].redirect = None =>
                w.affixed = {k}

\* C9 as amended: the redirecting node is not marked; the first node behind
\* it in the walk that is at the redirect destination is marked if it has no
\* redirect of its own; when no node behind it is there, none is marked.
C9_Amended ==
  Patched =>
    LET w == Walk
        behind == {k \in AtDestination(w) : k > Min(w.matches)}
    IN Redirected(w) =>
         /\ Min(w.matches) \notin w.affixed
         /\ behind = {} => w.affixed = {}
         /\ behind # {} /\ w.before[Min(behind)].redirect = None =>
              w.affixed = {Min(behind)}

\* the root at the home path redirects to its child, which is marked
C9_Witness ==
  /\ Patched
  /\ LET w == Walk
     IN /\ Redirected(w)
        /\ Len(w.before[Min(w.matches)].at) = 1
        /\ \E k \in AtDestination(w) :
             /\ w.before[k].at = Append(w.before[Min(w.matches)].at, 1)
             /\ w.affixed = {k}

====
